---- MODULE Spec2Model ----
(***************************************************************************)
(* Model of the firmware-assistant HTTP backend (src/main.py):             *)
(*   - wizard_steps   : static decision table (soc, method) -> steps       *)
(*   - adb_info       : read-only device probe shelling out to adb         *)
(*   - add_firmware / search_firmware / record_consent : document store    *)
(* One request is handled at a time; the document store persists across    *)
(* requests.  Text that the code converts (lower(), strip(), splitlines()) *)
(* is a sequence of one-character strings, so that the conversions are     *)
(* computed and not assumed.                                               *)
(***************************************************************************)
EXTENDS Integers, Sequences, FiniteSets, TLC

VARIABLES pc, op, req, resp, store, nextId, storeCalls, storeOutcome, saved, cmdLog, info,
          props, keyIdx

vars ==
    <<pc, op, req, resp, store, nextId, storeCalls, storeOutcome, saved, cmdLog, info, props,
      keyIdx>>

\* Python values that may be None are tagged: None, or a string.
None == <<"none">>

Str(s) == <<"str", s>>

-----------------------------------------------------------------------------
(* Bounds of the model *)

\* at most this many documents are created in the store by the requests of a run
MaxDocs == 1

\* the store is external and outlives the process: in some runs it already holds
\* this many firmware documents when the first request arrives
StoredAtStart == 100

-----------------------------------------------------------------------------
(* str.lower() *)

LowerChar(c) ==
    CASE c = "A" -> "a" [] c = "B" -> "b" [] c = "C" -> "c" [] c = "D" -> "d"
      [] c = "E" -> "e" [] c = "F" -> "f" [] c = "G" -> "g" [] c = "H" -> "h"
      [] c = "I" -> "i" [] c = "J" -> "j" [] c = "K" -> "k" [] c = "L" -> "l"
      [] c = "M" -> "m" [] c = "N" -> "n" [] c = "O" -> "o" [] c = "P" -> "p"
      [] c = "Q" -> "q" [] c = "R" -> "r" [] c = "S" -> "s" [] c = "T" -> "t"
      [] c = "U" -> "u" [] c = "V" -> "v" [] c = "W" -> "w" [] c = "X" -> "x"
      [] c = "Y" -> "y" [] c = "Z" -> "z" [] OTHER -> c

Lower(s) == [i \in 1..Len(s) |-> LowerChar(s[i])]

-----------------------------------------------------------------------------
(* Wizard Advisor: wizard_steps *)

qualcomm == <<"q", "u", "a", "l", "c", "o", "m", "m">>

mtk == <<"m", "t", "k">>

exynos == <<"e", "x", "y", "n", "o", "s">>

fastboot == <<"f", "a", "s", "t", "b", "o", "o", "t">>

odin == <<"o", "d", "i", "n">>

oneui_recovery == <<"o", "n", "e", "u", "i", "_", "r", "e", "c", "o", "v", "e", "r", "y">>

adb_sideload == <<"a", "d", "b", "_", "s", "i", "d", "e", "l", "o", "a", "d">>

SupportedSocs == {qualcomm, mtk, exynos}

FastbootSteps ==
    << "Ensure OEM-unlocked bootloader if required by OEM; follow official guidance.",
       "Charge device above 50% and back up user data.",
       "Install official USB drivers and platform-tools.",
       "Reboot device to bootloader/fastboot mode.",
       "Use OEM-provided images matching exact model and Android version (14/15/16).",
       "Validate SHA256 checksum from OEM before proceeding.",
       "Use command-line fastboot to flash ONLY per OEM documentation.",
       "After completion, relock bootloader only if OEM permits and device boots fine." >>

OdinSteps ==
    << "Install latest Samsung USB drivers.",
       "Download official firmware from Samsung channels (matching CSC and model).",
       "Start device in Download Mode.",
       "Open Odin on a trusted workstation, load BL/AP/CP/CSC as per OEM instructions.",
       "Verify SHA256 checksums and binary revision (bootloader version).",
       "Start process and wait until pass; do not disconnect.",
       "On success, boot to recovery and wipe cache/data only if recommended by OEM." >>

SideloadSteps ==
    << "Enable USB debugging and OEM unlocking if applicable.",
       "Download official OTA package for your exact model and Android version.",
       "Reboot to recovery and choose 'Apply update from ADB'.",
       "From workstation, run 'adb sideload <ota.zip>' per OEM guidance.",
       "Wait for verification and installation to complete.",
       "Reboot and perform post-update checks." >>

Disclaimer ==
    "Guidance only. Use official tools and firmware. This app does not execute flashing operations."

HTTPException(code, text) == [status |-> code, detail |-> text]

\* the if / elif chain of wizard_steps; <<>> stands for the final else (raise)
StepsForAnySoc(soc, method) ==
    IF method = fastboot THEN FastbootSteps
    ELSE IF method \in {odin, oneui_recovery} THEN OdinSteps
    ELSE IF method = adb_sideload THEN SideloadSteps
    ELSE <<>>

StepsFor(soc, method) ==
    IF method = fastboot THEN FastbootSteps
    ELSE IF method \in {odin, oneui_recovery} /\ soc = exynos THEN OdinSteps
    ELSE IF method = adb_sideload THEN SideloadSteps
    ELSE <<>>

\* a variant that evaluates the method before the SoC
WizardResponseMethodFirst(r) ==
    LET soc == Lower(r.soc)
        method == Lower(r.method)
    IN  IF StepsFor(soc, method) = <<>>
        THEN HTTPException(400, "Unsupported method for selected SoC")
        ELSE IF soc \notin SupportedSocs
        THEN HTTPException(400, "Unsupported SoC")
        ELSE [status |-> 200,
              body |-> [soc |-> soc, method |-> method, model |-> r.model,
                        android_version |-> r.android_version,
                        steps |-> StepsFor(soc, method), disclaimer |-> Disclaimer]]

WizardResponse(r) ==
    LET soc == Lower(r.soc)
        method == Lower(r.method)
    IN  IF soc \notin SupportedSocs
        THEN HTTPException(400, "Unsupported SoC")
        ELSE IF StepsFor(soc, method) = <<>>
        THEN HTTPException(400, "Unsupported method for selected SoC")
        ELSE [status |-> 200,
              body |-> [soc |-> soc, method |-> method, model |-> r.model,
                        android_version |-> r.android_version,
                        steps |-> StepsFor(soc, method), disclaimer |-> Disclaimer]]

\* spellings of the request fields the model draws from
QualcommSpellings ==
    { qualcomm,
      <<"Q", "u", "a", "l", "c", "o", "m", "m">>,
      <<"Q", "U", "A", "L", "C", "O", "M", "M">> }

MtkSpellings == { mtk, <<"M", "T", "K">>, <<"M", "t", "k">> }

ExynosSpellings ==
    { exynos,
      <<"E", "x", "y", "n", "o", "s">>,
      <<"E", "X", "Y", "N", "O", "S">> }

OtherSocs ==
    { <<"t", "i", "z", "e", "n">>,
      <<"T", "I", "Z", "E", "N">>,
      <<"e", "x", "y", "n", "o", "s", " ">>,
      <<>> }

FastbootSpellings ==
    { fastboot,
      <<"F", "a", "s", "t", "B", "o", "o", "t">>,
      <<"F", "A", "S", "T", "B", "O", "O", "T">> }

OdinSpellings == { odin, <<"O", "D", "I", "N">>, <<"O", "d", "i", "n">> }

OneuiSpellings ==
    { oneui_recovery,
      <<"O", "n", "e", "U", "I", "_", "R", "e", "c", "o", "v", "e", "r", "y">> }

SideloadSpellings ==
    { adb_sideload,
      <<"A", "D", "B", "_", "S", "I", "D", "E", "L", "O", "A", "D">>,
      <<"A", "d", "b", "_", "S", "i", "d", "e", "l", "o", "a", "d">> }

OtherMethods ==
    { <<"e", "d", "l">>,
      <<"E", "D", "L">>,
      <<"o", "d", "i", "n", " ">>,
      <<>> }

SocInputs == QualcommSpellings \cup MtkSpellings \cup ExynosSpellings \cup OtherSocs

MethodInputs ==
    FastbootSpellings \cup OdinSpellings \cup OneuiSpellings \cup SideloadSpellings
        \cup OtherMethods

OptionalTexts == { None, Str("SM-S921B") }

WizardRequests ==
    [soc : SocInputs, method : MethodInputs, model : OptionalTexts,
     android_version : { None, Str("15") }]

WizardSteps(r) ==
    /\ pc = "idle"
    /\ op' = "wizard_steps"
    /\ req' = r
    /\ resp' = WizardResponse(r)
    /\ UNCHANGED <<pc, store, nextId, storeCalls, storeOutcome, saved, cmdLog, info, props, keyIdx>>

Wizard == \E r \in WizardRequests : WizardSteps(r)

-----------------------------------------------------------------------------
(* Device Probe: adb_info *)

\* timeout=5 of every subprocess.run call
Timeout == 5

AdbPath == Str("/usr/bin/adb")

\* shutil.which("adb"): None when the executable is not on the search path
WhichResults == { None, AdbPath }

PropKeys ==
    << "ro.product.brand", "ro.product.device", "ro.product.model", "ro.build.id",
       "ro.build.version.release", "ro.build.version.sdk", "ro.build.fingerprint" >>

EmptyDict == [k \in {} |-> None]

\* Outcome of subprocess.run(..., capture_output=True, text=True, timeout=5), which
\* is called without check=True: it returns a CompletedProcess whatever the exit
\* status, and raises only when the timeout expires or the process cannot be run.
Completed(rc, out) == [kind |-> "completed", returncode |-> rc, stdout |-> out, error |-> ""]

Raised(e) == [kind |-> "raise", returncode |-> 0 - 1, stdout |-> <<>>, error |-> e]

IsSpace(c) == c \in {" ", "\t", "\n", "\r"}

RECURSIVE LStrip(_)
LStrip(s) == IF s # <<>> /\ IsSpace(Head(s)) THEN LStrip(Tail(s)) ELSE s

RECURSIVE RStrip(_)
RStrip(s) == IF s # <<>> /\ IsSpace(s[Len(s)]) THEN RStrip(SubSeq(s, 1, Len(s) - 1)) ELSE s

\* str.strip()
Strip(s) == RStrip(LStrip(s))

RECURSIVE SplitLinesFrom(_, _, _)
SplitLinesFrom(s, i, cur) ==
    IF i > Len(s) THEN (IF cur = <<>> THEN <<>> ELSE <<cur>>)
    ELSE IF s[i] = "\n" THEN <<cur>> \o SplitLinesFrom(s, i + 1, <<>>)
    ELSE SplitLinesFrom(s, i + 1, Append(cur, s[i]))

\* str.splitlines(); the outputs drawn below end their lines with "\n" only
SplitLines(s) == SplitLinesFrom(s, 1, <<>>)

NonBlank(l) == Strip(l) # <<>>

\* lines = [l.strip() for l in out.stdout.splitlines() if l.strip()]
StrippedLines(out) ==
    LET kept == SelectSeq(SplitLines(out), NonBlank)
    IN  [i \in 1..Len(kept) |-> Strip(kept[i])]

\* a variant that takes the header line for a device
DevicesOfKeepHeader(out) == StrippedLines(out)

\* for line in lines[1:]: info["devices"].append(line)
DevicesOf(out) ==
    LET lines == StrippedLines(out)
    IN  IF lines = <<>> THEN <<>> ELSE Tail(lines)

AdbMissingNever(adb_path) == FALSE

\* if not adb_path
AdbMissing(adb_path) == adb_path = None \/ adb_path = Str("")

ListArgv == <<"devices", "-l">>

GetpropArgv == <<"shell", "getprop">>

KeyArgvSetprop(key) == <<"shell", "setprop", key>>

KeyArgv(key) == <<"shell", "getprop", key>>

\* one subprocess.run([adb_path, ...argv], timeout=5) with outcome o
Invocation(argv, o) == [argv |-> argv, timeout |-> Timeout, outcome |-> o]

\* return {**info, "props": props}
ProbeReturn(i, p) == [status |-> 200, body |-> i @@ ("props" :> p)]

Header == <<"L", "i", "s", "t", " ", "o", "f", " ", "d", "e", "v", "i", "c", "e", "s", " ", "a", "t", "t", "a", "c", "h", "e", "d">>

NL == <<"\n">>

DeviceLine1 == <<"e", "m", "u", "-", "1", " ", "d", "e", "v", "i", "c", "e">>

DeviceLine2 == <<"R", "5", "8", " ", "d", "e", "v", "i", "c", "e">>

\* what `adb devices -l` may print when no device is attached
ZeroDeviceStdouts ==
    { <<>>,
      Header \o NL,
      Header \o NL \o NL,
      <<" ">> \o Header \o <<" ">> \o NL \o <<" ", "\t">> \o NL }

\* what it may print with devices attached
SomeDeviceStdouts ==
    { Header \o NL \o DeviceLine1 \o NL \o NL,
      Header \o NL \o DeviceLine1 \o NL \o <<" ">> \o DeviceLine2 \o <<" ">> \o NL \o NL }

RaiseOutcomes == { Raised("TimeoutExpired"), Raised("OSError") }

ListOutcomes ==
    { Completed(0, out) : out \in ZeroDeviceStdouts \cup SomeDeviceStdouts }
        \cup { Completed(1, <<>>), Completed(1, Header \o NL) }
        \cup RaiseOutcomes

DeviceProps ==
    [k \in { PropKeys[i] : i \in 1..Len(PropKeys) } |->
        CASE k = "ro.product.brand" -> <<"g", "o", "o", "g", "l", "e">>
          [] k = "ro.product.device" -> <<"h", "u", "s", "k", "y">>
          [] k = "ro.product.model" -> <<"P", "i", "x", "e", "l", " ", "8">>
          [] k = "ro.build.id" -> <<"A", "P", "1", "A">>
          [] k = "ro.build.version.release" -> <<"1", "4">>
          [] k = "ro.build.version.sdk" -> <<"3", "4">>
          [] OTHER -> <<"g", "/", "h", ":", "1", "4">>]

GetpropOutcomes ==
    { Completed(0, <<"[", "a", "]", ":", " ", "[", "b", "]">> \o NL), Completed(1, <<>>) }
        \cup RaiseOutcomes

KeyOutcomes(key) ==
    { Completed(0, DeviceProps[key] \o NL), Completed(1, <<>>), Raised("TimeoutExpired") }

\* lines 120-128
ProbeStart(adb_path) ==
    /\ pc = "idle"
    /\ op' = "adb_info"
    /\ req' = None
    /\ cmdLog' = <<>>
    /\ info' = [adb_available |-> ~AdbMissing(adb_path), adb_path |-> adb_path,
                devices |-> <<>>, errors |-> <<>>]
    /\ props' = None
    /\ keyIdx' = 0
    /\ IF AdbMissing(adb_path)
       THEN /\ resp' = [status |-> 200, body |-> info']
            /\ pc' = "idle"
       ELSE /\ resp' = None
            /\ pc' = "probe_list"
    /\ UNCHANGED <<store, nextId, storeCalls, storeOutcome, saved>>

\* lines 130-142
ProbeList(o) ==
    /\ pc = "probe_list"
    /\ cmdLog' = Append(cmdLog, Invocation(ListArgv, o))
    /\ info' = IF o.kind = "completed"
               THEN [info EXCEPT !.devices = info.devices \o DevicesOf(o.stdout)]
                        @@ ("devices_raw" :> o.stdout)
               ELSE [info EXCEPT !.errors = Append(info.errors, o.error)]
    /\ props' = EmptyDict
    /\ IF info'.devices = <<>>
       THEN /\ resp' = ProbeReturn(info', props')
            /\ pc' = "idle"
       ELSE /\ resp' = resp
            /\ pc' = "probe_getprop"
    /\ UNCHANGED <<op, req, store, nextId, storeCalls, storeOutcome, saved, keyIdx>>

\* lines 144-145, 162-165
ProbeGetprop(o) ==
    /\ pc = "probe_getprop"
    /\ cmdLog' = Append(cmdLog, Invocation(GetpropArgv, o))
    /\ IF o.kind = "completed"
       THEN /\ pc' = "probe_key"
            /\ keyIdx' = 1
            /\ UNCHANGED <<info, resp>>
       ELSE /\ info' = [info EXCEPT !.errors = Append(info.errors, o.error)]
            /\ resp' = ProbeReturn(info', props)
            /\ pc' = "idle"
            /\ UNCHANGED keyIdx
    /\ UNCHANGED <<op, req, props, store, nextId, storeCalls, storeOutcome, saved>>

\* lines 146-161, 165: one iteration of the loop over the keys
ProbeKey(o) ==
    /\ pc = "probe_key"
    /\ cmdLog' = Append(cmdLog, Invocation(KeyArgv(PropKeys[keyIdx]), o))
    /\ props' = props @@ (PropKeys[keyIdx] :>
                    IF o.kind = "completed" THEN Str(Strip(o.stdout)) ELSE None)
    /\ IF keyIdx = Len(PropKeys)
       THEN /\ resp' = ProbeReturn(info, props')
            /\ pc' = "idle"
            /\ keyIdx' = 0
       ELSE /\ resp' = resp
            /\ pc' = "probe_key"
            /\ keyIdx' = keyIdx + 1
    /\ UNCHANGED <<op, req, info, store, nextId, storeCalls, storeOutcome, saved>>

ProbeBegin == \E p \in WhichResults : ProbeStart(p)

ProbeListing == \E o \in ListOutcomes : ProbeList(o)

ProbeShell == \E o \in GetpropOutcomes : ProbeGetprop(o)

ProbeProperty ==
    /\ pc = "probe_key"
    /\ \E o \in KeyOutcomes(PropKeys[keyIdx]) : ProbeKey(o)

Probe == ProbeBegin \/ ProbeListing \/ ProbeShell \/ ProbeProperty

-----------------------------------------------------------------------------
(* Document store (the `database` module: create_document, get_documents) *)

\* limit=100 of the get_documents call
Limit == 100

\* the store's native identifier (an ObjectId) and its str() form
Oid(n) == <<"oid", n>>

PyStr(v) == IF v[1] = "oid" THEN Str(ToString(v[2])) ELSE v

\* create_document(collection, data): inserts data under a fresh _id
CreateDocument(st, coll, data, n) == [st EXCEPT ![coll] = Append(@, data @@ ("_id" :> Oid(n)))]

\* the identifier create_document hands back
CreatedId(n) == PyStr(Oid(n))

Min(a, b) == IF a < b THEN a ELSE b

\* get_documents(collection, query, limit): the first `limit` documents whose
\* fields equal the query's, in insertion order
GetDocuments(st, coll, query, limit) ==
    LET Matches(d) == \A k \in DOMAIN query : k \in DOMAIN d /\ d[k] = query[k]
        found == SelectSeq(st[coll], Matches)
    IN  SubSeq(found, 1, Min(limit, Len(found)))

EmptyStore == [firmware |-> <<>>, consent |-> <<>>]

\* what may happen when a handler reaches for the store: the call works, the call
\* raises, or the import of the database module itself raises
StoreOutcomes == { "ok", "raise", "import_error" }

StoreError(o) == IF o = "raise" THEN "connection refused" ELSE "No module named 'database'"

-----------------------------------------------------------------------------
(* Firmware Catalog and Consent Recorder *)

FirmwareFields ==
    { "soc", "oem", "model", "android_version", "build_number", "channel", "url",
      "checksum_sha256", "notes" }

FilterFields == { "model", "soc", "android_version" }

ConsentFields ==
    { "customer_name", "device_model", "android_version", "operations",
      "checklist_confirmed", "signature" }

\* BaseModel.model_dump(): a dict of every declared field, unset optionals as None
ModelDump(obj, fields) == [f \in fields |-> obj[f]]

FirmwareItem(soc, model, notes) ==
    [soc |-> Str(soc), oem |-> Str("Samsung"), model |-> Str(model),
     android_version |-> Str("15"), build_number |-> None, channel |-> None,
     url |-> None, checksum_sha256 |-> None, notes |-> notes]

FirmwareItemSeq ==
    << FirmwareItem("exynos", "SM-S921B", None),
       FirmwareItem("exynos", "", Str("beta")),
       FirmwareItem("qualcomm", "SM-S921B", Str("beta")),
       FirmwareItem("qualcomm", "", None) >>

FirmwareItems == { FirmwareItemSeq[i] : i \in 1..Len(FirmwareItemSeq) }

FirmwareFilter(model, soc, android_version) ==
    [model |-> model, soc |-> soc, android_version |-> android_version]

FirmwareFilters ==
    { FirmwareFilter(None, None, None),
      FirmwareFilter(Str("SM-S921B"), None, None),
      FirmwareFilter(Str("Pixel 9 Pro"), None, None),
      FirmwareFilter(Str(""), None, None),
      FirmwareFilter(None, Str("exynos"), None),
      FirmwareFilter(None, None, Str("15")),
      FirmwareFilter(Str("SM-S921B"), Str("exynos"), None),
      FirmwareFilter(Str(""), Str("exynos"), None),
      FirmwareFilter(Str("SM-S921B"), Str(""), Str("15")) }

ConsentItems ==
    { [customer_name |-> Str("Ada"), device_model |-> Str("SM-S921B"),
       android_version |-> None, operations |-> <<>>, checklist_confirmed |-> FALSE,
       signature |-> None],
      [customer_name |-> Str("Ada"), device_model |-> Str("SM-S921B"),
       android_version |-> Str("15"), operations |-> <<"diagnostics", "backup">>,
       checklist_confirmed |-> TRUE, signature |-> Str("A.L.")] }

\* `if filters.model:` -- Python truthiness of an Optional[str]
Truthy(v) == v # None /\ v # Str("")

BuildQueryNotNone(filters) == [k \in { f \in FilterFields : filters[f] # None } |-> filters[k]]

\* lines 185-191
BuildQuery(filters) == [k \in { f \in FilterFields : Truthy(filters[f]) } |-> filters[k]]

ConvertIdKeepNative(d) ==
    IF "_id" \in DOMAIN d THEN d @@ ("id" :> PyStr(d["_id"])) ELSE d

\* if "_id" in d: d["id"] = str(d.pop("_id"))
ConvertId(d) ==
    IF "_id" \in DOMAIN d
    THEN [k \in (DOMAIN d \ {"_id"}) \cup {"id"} |-> IF k = "id" THEN PyStr(d["_id"]) ELSE d[k]]
    ELSE d

StoreCall(fn, coll, arg, limit) == [fn |-> fn, collection |-> coll, arg |-> arg, limit |-> limit]

\* the calls a handler makes to the store when the outcome is o
CallsMade(call, o) == IF o = "import_error" THEN <<>> ELSE <<call>>

HandleStoreErrorPropagate(e) == HTTPException(500, <<"Internal Server Error", e>>)

\* except Exception as e: raise HTTPException(status_code=503, ...)
HandleStoreError(e) == HTTPException(503, <<"Database unavailable: ", e>>)

\* documents created by the requests of this run
CreatedDocs == Cardinality(saved) + Len(store.consent)

\* lines 171-178
AddFirmware(item, o) ==
    /\ pc = "idle"
    /\ o = "ok" => CreatedDocs < MaxDocs
    /\ op' = "add_firmware"
    /\ req' = item
    /\ storeOutcome' = o
    /\ storeCalls' = CallsMade(StoreCall("create_document", "firmware",
                                         ModelDump(item, FirmwareFields), None), o)
    /\ IF o = "ok"
       THEN /\ store' = CreateDocument(store, "firmware", ModelDump(item, FirmwareFields), nextId)
            /\ nextId' = nextId + 1
            /\ resp' = [status |-> 200, body |-> [id |-> CreatedId(nextId), status |-> "saved"]]
            /\ saved' = saved \cup { [item |-> item, id |-> CreatedId(nextId)] }
       ELSE /\ resp' = HandleStoreError(StoreError(o))
            /\ UNCHANGED <<store, nextId, saved>>
    /\ UNCHANGED <<pc, cmdLog, info, props, keyIdx>>

\* lines 181-199
SearchFirmware(filters, o) ==
    /\ pc = "idle"
    /\ op' = "search_firmware"
    /\ req' = filters
    /\ storeOutcome' = o
    /\ storeCalls' = CallsMade(StoreCall("get_documents", "firmware", BuildQuery(filters), Limit), o)
    /\ IF o = "ok"
       THEN LET docs == GetDocuments(store, "firmware", BuildQuery(filters), Limit)
            IN  resp' = [status |-> 200,
                         body |-> [items |-> [i \in 1..Len(docs) |-> ConvertId(docs[i])]]]
       ELSE resp' = HandleStoreError(StoreError(o))
    /\ UNCHANGED <<pc, store, nextId, saved, cmdLog, info, props, keyIdx>>

\* lines 205-212
RecordConsent(consent, o) ==
    /\ pc = "idle"
    /\ o = "ok" => CreatedDocs < MaxDocs
    /\ op' = "record_consent"
    /\ req' = consent
    /\ storeOutcome' = o
    /\ storeCalls' = CallsMade(StoreCall("create_document", "consent",
                                         ModelDump(consent, ConsentFields), None), o)
    /\ IF o = "ok"
       THEN /\ store' = CreateDocument(store, "consent", ModelDump(consent, ConsentFields), nextId)
            /\ nextId' = nextId + 1
            /\ resp' = [status |-> 200, body |-> [id |-> CreatedId(nextId), status |-> "recorded"]]
       ELSE /\ resp' = HandleStoreError(StoreError(o))
            /\ UNCHANGED <<store, nextId>>
    /\ UNCHANGED <<pc, saved, cmdLog, info, props, keyIdx>>

\* a store filled by earlier runs
StoreAtStart ==
    [firmware |-> [n \in 1..StoredAtStart |->
                      ModelDump(FirmwareItemSeq[(n % Len(FirmwareItemSeq)) + 1], FirmwareFields)
                          @@ ("_id" :> Oid(n))],
     consent |-> <<>>]

Add == \E item \in FirmwareItems, o \in StoreOutcomes : AddFirmware(item, o)

Search == \E filters \in FirmwareFilters, o \in StoreOutcomes : SearchFirmware(filters, o)

Consent == \E consent \in ConsentItems, o \in StoreOutcomes : RecordConsent(consent, o)

Catalog == Add \/ Search \/ Consent

-----------------------------------------------------------------------------
InitFrom(st) ==
    /\ pc = "idle"
    /\ op = "none"
    /\ req = None
    /\ resp = None
    /\ store = st
    /\ nextId = Len(st.firmware) + 1
    /\ storeCalls = <<>>
    /\ storeOutcome = "none"
    /\ saved = {}
    /\ cmdLog = <<>>
    /\ info = None
    /\ props = None
    /\ keyIdx = 0

\* the process starts against an empty store ...
Init == InitFrom(EmptyStore)

\* ... or against one that earlier runs have filled
InitStore == \E st \in { EmptyStore, StoreAtStart } : InitFrom(st)

SpecWizard == Init /\ [][Wizard]_vars

SpecProbe == Init /\ [][Probe]_vars

SpecStore == InitStore /\ [][Catalog]_vars

Next == Wizard \/ Probe \/ Catalog

Spec == InitStore /\ [][Next]_vars

-----------------------------------------------------------------------------
(* Wizard Advisor claims, checked under SpecWizard *)

\* C1: for a supported SoC in any spelling, the response follows the decision
\* table on the lower-cased (soc, method): fastboot gives the 8-step list for
\* every SoC, odin / oneui_recovery give the 7-step list on exynos only,
\* adb_sideload gives the 6-step list for every SoC, and anything else is the
\* 400 "Unsupported method for selected SoC"; the response carries the
\* lower-cased names, so every spelling of an input gives the same result.
C1_DecisionTable ==
    (op = "wizard_steps"
        /\ req.soc \in QualcommSpellings \cup MtkSpellings \cup ExynosSpellings) =>
        LET socName == IF req.soc \in QualcommSpellings THEN qualcomm
                       ELSE IF req.soc \in MtkSpellings THEN mtk ELSE exynos
            expected ==
                IF req.method \in FastbootSpellings THEN <<fastboot, FastbootSteps, 8>>
                ELSE IF req.method \in OdinSpellings /\ req.soc \in ExynosSpellings
                THEN <<odin, OdinSteps, 7>>
                ELSE IF req.method \in OneuiSpellings /\ req.soc \in ExynosSpellings
                THEN <<oneui_recovery, OdinSteps, 7>>
                ELSE IF req.method \in SideloadSpellings
                THEN <<adb_sideload, SideloadSteps, 6>>
                ELSE <<>>
        IN  IF expected = <<>>
            THEN /\ resp.status = 400
                 /\ resp.detail = "Unsupported method for selected SoC"
                 /\ "body" \notin DOMAIN resp
            ELSE /\ resp.status = 200
                 /\ resp.body.steps = expected[2]
                 /\ Len(resp.body.steps) = expected[3]
                 /\ resp.body.soc = socName
                 /\ resp.body.method = expected[1]
                 /\ resp.body.model = req.model
                 /\ resp.body.android_version = req.android_version
                 /\ resp.body.disclaimer = Disclaimer

\* steps("Exynos", "ODIN") answered with the 7-step Odin flow
C1_Witness ==
    /\ op = "wizard_steps"
    /\ req.soc = <<"E", "x", "y", "n", "o", "s">>
    /\ req.method = <<"O", "D", "I", "N">>
    /\ resp.status = 200
    /\ resp.body.steps = OdinSteps

\* C2: an unsupported SoC is answered 400 "Unsupported SoC" whatever the
\* method, supported or not; never "Unsupported method", and no steps.
C2_UnsupportedSocFirst ==
    (op = "wizard_steps" /\ req.soc \in OtherSocs) =>
        /\ resp.status = 400
        /\ resp.detail = "Unsupported SoC"
        /\ "body" \notin DOMAIN resp

\* steps("tizen", <unsupported method>) answered with Unsupported SoC
C2_Witness ==
    /\ op = "wizard_steps"
    /\ req.soc = <<"t", "i", "z", "e", "n">>
    /\ req.method = <<"e", "d", "l">>
    /\ resp.status = 400
    /\ resp.detail = "Unsupported SoC"

-----------------------------------------------------------------------------
(* Device Probe claims, checked under SpecProbe *)

\* C3: when the adb executable is not found the probe has returned at once
\* with adb_available false, no devices, no errors, and has run no process.
C3_NoBridge ==
    (op = "adb_info" /\ info.adb_path = None) =>
        /\ pc = "idle"
        /\ resp.status = 200
        /\ resp.body.adb_available = FALSE
        /\ resp.body.devices = <<>>
        /\ resp.body.errors = <<>>
        /\ cmdLog = <<>>

C3_Witness ==
    /\ op = "adb_info"
    /\ pc = "idle"
    /\ info.adb_path = None
    /\ resp.status = 200
    /\ resp.body.adb_available = FALSE

\* C4: with at least one device listed, the returned props map has an entry
\* for each of the seven keys whatever property invocations failed (timeout or
\* command failure): null where the key's invocation failed, the value read
\* where it succeeded.
C4_PropsNeverAbort ==
    (op = "adb_info" /\ pc = "idle" /\ info.adb_available /\ info.devices # <<>>) =>
        /\ DOMAIN resp.body.props =
               { "ro.product.brand", "ro.product.device", "ro.product.model", "ro.build.id",
                 "ro.build.version.release", "ro.build.version.sdk", "ro.build.fingerprint" }
        /\ \A i \in 1..Len(cmdLog) :
               Len(cmdLog[i].argv) = 3 =>
                   LET key == cmdLog[i].argv[3]
                       o == cmdLog[i].outcome
                   IN  IF o.kind = "raise" \/ o.returncode # 0
                       THEN resp.body.props[key] = None
                       ELSE resp.body.props[key] = Str(DeviceProps[key])

\* C5: whatever the outcomes of the invocations (success, timeout, command
\* failure) the probe returns a response, and a failed device listing is
\* recorded in the response's errors list.
C5_ListingFailureRecorded ==
    (op = "adb_info" /\ pc = "idle") =>
        /\ resp.status = 200
        /\ (Len(cmdLog) >= 1
               /\ (cmdLog[1].outcome.kind = "raise" \/ cmdLog[1].outcome.returncode # 0))
            => resp.body.errors # <<>>

\* C9: every command the probe issues is the device listing or a getprop
\* read, with no key or with one of the seven fixed keys.
C9_ReadOnlyCommands ==
    \A i \in 1..Len(cmdLog) :
        /\ cmdLog[i].argv \in
               { <<"devices", "-l">>, <<"shell", "getprop">> } \cup
               { <<"shell", "getprop", k>> :
                   k \in { "ro.product.brand", "ro.product.device", "ro.product.model",
                           "ro.build.id", "ro.build.version.release",
                           "ro.build.version.sdk", "ro.build.fingerprint" } }
        /\ cmdLog[i].timeout = 5

\* a probe that issued the listing, the bare getprop and the seven key reads,
\* some of which failed
C9_Witness ==
    /\ op = "adb_info"
    /\ pc = "idle"
    /\ Len(cmdLog) = 9
    /\ cmdLog[3].outcome.kind = "raise"
    /\ cmdLog[9].outcome.returncode = 1

\* C10: with adb present and a listing that yields no device (empty output,
\* header only, blank lines, or a failed listing) the probe has returned with
\* an empty props map after that single invocation.
C10_ZeroDevicesNoQueries ==
    (op = "adb_info" /\ Len(cmdLog) >= 1
        /\ (cmdLog[1].outcome.kind = "raise" \/ cmdLog[1].outcome.stdout \in ZeroDeviceStdouts)) =>
        /\ pc = "idle"
        /\ resp.status = 200
        /\ resp.body.devices = <<>>
        /\ DOMAIN resp.body.props = {}
        /\ Len(cmdLog) = 1

C10_Witness ==
    /\ op = "adb_info"
    /\ pc = "idle"
    /\ cmdLog = <<Invocation(<<"devices", "-l">>, Completed(0, Header \o NL))>>
    /\ resp.body.adb_available
    /\ DOMAIN resp.body.props = {}

-----------------------------------------------------------------------------
(* Firmware Catalog and Consent Recorder claims, checked under SpecStore *)

\* C6 as stated: the query constrains k to v exactly when the filter supplies
\* k (with value v), the empty filter gives the empty query, and at most 100
\* records are asked for.
C6_QueryFromSuppliedFields ==
    (op = "search_firmware" /\ storeCalls # <<>>) =>
        LET q == storeCalls[1].arg
        IN  /\ DOMAIN q \subseteq { "model", "soc", "android_version" }
            /\ \A k \in { "model", "soc", "android_version" } :
                   /\ k \in DOMAIN q <=> req[k] # None
                   /\ k \in DOMAIN q => q[k] = req[k]
            /\ storeCalls[1].limit <= 100

\* C6 amended: the query constrains k to v exactly when the filter supplies k
\* with a non-empty value v; a field that is absent, null or the empty string
\* is left unconstrained; at most 100 records are asked for.
C6_QueryFromNonEmptyFields ==
    (op = "search_firmware" /\ storeCalls # <<>>) =>
        LET q == storeCalls[1].arg
        IN  /\ storeCalls[1].fn = "get_documents"
            /\ storeCalls[1].collection = "firmware"
            /\ DOMAIN q \subseteq { "model", "soc", "android_version" }
            /\ \A k \in { "model", "soc", "android_version" } :
                   /\ k \in DOMAIN q <=> (req[k] # None /\ req[k] # Str(""))
                   /\ k \in DOMAIN q => q[k] = req[k]
            /\ storeCalls[1].limit <= 100

\* a filter with an empty model and a soc: only the soc is constrained
C6_Witness ==
    /\ op = "search_firmware"
    /\ req.model = Str("")
    /\ req.soc = Str("exynos")
    /\ req.android_version = None
    /\ storeCalls # <<>>
    /\ DOMAIN storeCalls[1].arg = { "soc" }

\* C7 as stated: a record that add_firmware saved comes back from a
\* successful search whose filter names at least one field and agrees with the
\* record on every field it names: all nine fields unchanged, an id that is
\* the string form of the identifier the store assigned, and no _id.
C7_RoundTripAlways ==
    (op = "search_firmware" /\ resp.status = 200) =>
        \A s \in saved :
            ((\E k \in FilterFields : req[k] # None)
                /\ (\A k \in FilterFields : req[k] = None \/ req[k] = s.item[k])) =>
                \E i \in 1..Len(resp.body.items) :
                    LET d == resp.body.items[i]
                    IN  /\ DOMAIN d = FirmwareFields \cup { "id" }
                        /\ \A f \in FirmwareFields : d[f] = s.item[f]
                        /\ d["id"] = s.id

\* C7 amended: the same, provided at most 100 stored firmware records agree
\* with the filter on its non-empty fields (the search asks the store for 100
\* records at most).
C7_RoundTrip ==
    (op = "search_firmware" /\ resp.status = 200
        /\ Cardinality({ j \in 1..Len(store.firmware) :
                           \A k \in FilterFields :
                               req[k] \in { None, Str("") } \/ store.firmware[j][k] = req[k] })
               <= 100) =>
        \A s \in saved :
            ((\E k \in FilterFields : req[k] # None)
                /\ (\A k \in FilterFields : req[k] = None \/ req[k] = s.item[k])) =>
                \E i \in 1..Len(resp.body.items) :
                    LET d == resp.body.items[i]
                    IN  /\ DOMAIN d = FirmwareFields \cup { "id" }
                        /\ \A f \in FirmwareFields : d[f] = s.item[f]
                        /\ d["id"] = s.id
                        /\ d["id"][1] = "str"
                        /\ \E j \in 1..Len(store.firmware) :
                               LET native == store.firmware[j]["_id"]
                               IN  /\ native[1] = "oid"
                                   /\ d["id"] = Str(ToString(native[2]))
                                   /\ \A f \in FirmwareFields :
                                          store.firmware[j][f] = s.item[f]

\* a record saved into a store that already held others, and a search on its
\* model and soc that returned it among the matching records
C7_Witness ==
    /\ op = "search_firmware"
    /\ resp.status = 200
    /\ \E s \in saved : s.item.model = Str("SM-S921B") /\ s.item.soc = Str("exynos")
    /\ req.model = Str("SM-S921B")
    /\ req.soc = Str("exynos")
    /\ Len(store.firmware) = StoredAtStart + 1
    /\ 1 < Len(resp.body.items)
    /\ Len(resp.body.items) < Len(store.firmware)
    /\ resp.body.items[Len(resp.body.items)]["id"] = Str(ToString(StoredAtStart + 1))

\* C8: a store failure (the call raising, or the database module unreachable)
\* ends the request with a 503; a handler calls the store at most once per
\* request, and a failed request leaves the store as it was.
C8_StoreFailureTerminal ==
    /\ [](op \in { "add_firmware", "search_firmware", "record_consent" } =>
            /\ Len(storeCalls) <= 1
            /\ pc = "idle"
            /\ storeOutcome \in { "raise", "import_error" } =>
                   /\ resp.status = 503
                   /\ "body" \notin DOMAIN resp)
    /\ [][storeOutcome' \in { "raise", "import_error" } => store' = store]_vars

\* add_firmware met a raising store, called it once and answered 503
C8_Witness ==
    /\ op = "add_firmware"
    /\ storeOutcome = "raise"
    /\ Len(storeCalls) = 1
    /\ resp.status = 503

====
